---- MODULE Spec2Model ----
(***************************************************************************)
(* TripSync backend: the RSVP / waitlist admission control of              *)
(* routes/rsvp.py and routes/trips.py and the expense engine of            *)
(* routes/expenses.py, over the tables of models/trip.py and               *)
(* models/expense.py.                                                      *)
(*                                                                         *)
(* Money is counted in cents (Numeric(10, 2) columns).  A NULL             *)
(* waitlist_position is 0 (stored positions are >= 1) and a NULL           *)
(* guest_limit is -1.  The updated_at column of trip_members is kept as    *)
(* the order in which the rows were last UPDATEd (rows never updated have  *)
(* a NULL updated_at and are absent from the order).                       *)
(***************************************************************************)
EXTENDS Integers, Sequences, FiniteSets, TLC

\* ---------------------------------------------------------------- bounds
MaxLimit == 2
MaxPos == 3
MaxInFlight == 2
\* Amounts in cents, and the entries of a request's participants list.
MaxAmount == 2
MaxEntries == 2

\* ------------------------------------------------------- program values
NULL == 0
NULL_LIMIT == -1
HTTP_OK == 200
HTTP_CREATED == 201
HTTP_BAD_REQUEST == 400
HTTP_FORBIDDEN == 403
HTTP_NOT_FOUND == 404
HTTP_INTERNAL == 500

Users == {"u1", "u2", "u3"}
Trips == {"t1"}
GuestLimits == {NULL_LIMIT} \cup (0..MaxLimit)
\* The users are interchangeable: the trip is created by the first.
Creators == {"u1"}
Roles == {"planner", "guest", "viewer"}

NoMember == [role |-> "none", rsvp_status |-> "none", waitlist_position |-> NULL]
NoTrip == [exists |-> FALSE, guest_limit |-> NULL_LIMIT, creator_id |-> "none"]
NoLast == [op |-> "none", user |-> "none", arg |-> "none", code |-> 0]

NoRequest ==
    [pc |-> "idle", route |-> "none", status |-> "none", loaded |-> NoMember,
     count |-> 0, maxpos |-> 0, target |-> "none"]

ExpenseIds == {"e1"}
Amounts == 0..MaxAmount
\* The title a create_expense request gives, and the title an update_expense
\* request with the key 'title' gives.
CreatedTitle == "title"
UpdatedTitle == "retitled"
NoExpense ==
    [exists |-> FALSE, trip_id |-> "none", creator_id |-> "none", amount |-> 0,
     title |-> "none"]
NoSummary ==
    [exists |-> FALSE, users |-> {}, paid |-> [u \in Users |-> 0],
     owed |-> [u \in Users |-> 0], net |-> [u \in Users |-> 0], settlements |-> <<>>]

\* trips, trip_members, updated: the committed rows.  last: the last completed
\* request.  req: the requests in flight, one per user, with what each has
\* read so far.  raced: a going request committed while another going request
\* had read its counts and not yet committed.
\* expenses, expense_participants: the committed rows of the expense tables.
\* summary: the body of the last response when it is an expense summary.
\* looked: the membership-creating requests (route, trip, user) that looked
\* for the user's membership, found none and have not inserted theirs yet.
\* extra_rows: the committed trip_members rows of a (trip, user) pair beyond
\* the first (the table has no unique constraint); trip_members holds the first.
VARIABLES trips, trip_members, updated, last, req, raced,
          expenses, expense_participants, summary, looked, extra_rows

vars == <<trips, trip_members, updated, last, req, raced,
          expenses, expense_participants, summary, looked, extra_rows>>

exp_vars == <<expenses, expense_participants, summary>>

join_vars == <<looked, extra_rows>>

\* A TripMember row as the constructor call builds it.
TripMember(role, rsvp_status, waitlist_position) ==
    [role |-> role, rsvp_status |-> rsvp_status, waitlist_position |-> waitlist_position]

\* Python truthiness of trip.guest_limit: None and 0 are false.
Truthy(g) == g # NULL_LIMIT /\ g # 0

\* ---------------------------------------------------------------- queries
IsMember(m, u) == m[u] # NoMember

\* TripMember.query.filter_by(trip_id=..., rsvp_status='going')
GoingMembers(m) == {v \in Users : m[v].rsvp_status = "going"}

\* ... .filter(TripMember.id != member.id).count()
OtherGoing(m, u) == Cardinality(GoingMembers(m) \ {u})

\* filter_by(rsvp_status='going', waitlist_position=None).count()
ConfirmedGoing(m) ==
    {v \in Users : m[v].rsvp_status = "going" /\ m[v].waitlist_position = NULL}

SetMax(S) == IF S = {} THEN 0 ELSE CHOOSE x \in S : \A y \in S : y <= x
SetMin(S) == CHOOSE x \in S : \A y \in S : x <= y

\* db.session.query(func.max(TripMember.waitlist_position)).scalar() or 0
MaxPosition(m) ==
    SetMax({m[v].waitlist_position : v \in {w \in Users : IsMember(m, w)}})

\* filter_by(rsvp_status='going').filter(waitlist_position.isnot(None))
Waitlisted(m) ==
    {v \in Users : m[v].rsvp_status = "going" /\ m[v].waitlist_position # NULL}

\* ... .order_by(TripMember.waitlist_position).first(): the rows that can come
\* first (equal positions are returned in no defined order).
FirstWaitlisted(m) ==
    {v \in Waitlisted(m) :
        m[v].waitlist_position = SetMin({m[w].waitlist_position : w \in Waitlisted(m)})}

\* ------------------------------------------------------------ row writes
\* onupdate=func.now(): an UPDATE of the row makes it the latest updated.
Touch(o, u) == Append(SelectSeq(o, LAMBDA x : x # u), u)

\* The row of u after a flush of `row`: an UPDATE is emitted only when a
\* column value changed.
Flush(m, o, u, row) ==
    IF m[u] = row THEN [m |-> m, o |-> o]
    ELSE [m |-> [m EXCEPT ![u] = row], o |-> Touch(o, u)]

\* db.session.add(TripMember(...)): a new row, updated_at NULL.
Insert(m, o, u, row) == [m |-> [m EXCEPT ![u] = row], o |-> o]

\* db.session.delete(member)
Delete(m, o, u) ==
    [m |-> [m EXCEPT ![u] = NoMember], o |-> SelectSeq(o, LAMBDA x : x # u)]

\* ------------------------------------------------ routes/rsvp.py: helpers
\* Lines 343-359 and 254-271: the position of a member who sets going on a
\* trip with a guest limit (m is read after the autoflush of the new status).
WaitlistOnGoing(g, m, u) ==
    IF OtherGoing(m, u) + 1 > g THEN MaxPosition(m) + 1 ELSE NULL

\* Lines 368-386 and 142-160: the rows the promotion may pick ("none" when the
\* sweep finds the trip full or nobody waiting).
SweepChoices(g, m) ==
    IF Truthy(g) /\ Cardinality(ConfirmedGoing(m)) < g /\ Waitlisted(m) # {}
    THEN FirstWaitlisted(m)
    ELSE {"none"}

\* Promote as a re-pack of the queue: every waitlisted member is confirmed.
Promote_everyone(m, o, pick) ==
    IF pick = "none" THEN [m |-> m, o |-> o]
    ELSE [m |-> [v \in Users |->
                    IF v \in Waitlisted(m) THEN [m[v] EXCEPT !.waitlist_position = NULL]
                    ELSE m[v]],
          o |-> o]

\* waitlist_member.waitlist_position = None; db.session.commit()
Promote(m, o, pick) ==
    IF pick = "none" THEN [m |-> m, o |-> o]
    ELSE Flush(m, o, pick, [m[pick] EXCEPT !.waitlist_position = NULL])

\* ---------------------------------- POST /api/rsvp/<trip_id> (lines 294-392)
RoleForStatus(role, status) ==
    IF status = "going" THEN "guest"
    ELSE IF status \in {"maybe", "not_going"} THEN "viewer"
    ELSE role

\* The state after the commit of line 365 (the member row is created and
\* committed first, lines 314-323, when the user has none).
respond_to_invitation_commit(g, m, o, u, status) ==
    LET c0 == IF IsMember(m, u) THEN [m |-> m, o |-> o]
              ELSE Insert(m, o, u, TripMember("viewer", "pending", NULL))
        rsvp == IF status = "not_going" THEN "no" ELSE status
        row1 == [c0.m[u] EXCEPT !.rsvp_status = rsvp,
                                !.role = RoleForStatus(c0.m[u].role, status)]
        m1 == [c0.m EXCEPT ![u] = row1]
        wl == IF status = "going" /\ Truthy(g) THEN WaitlistOnGoing(g, m1, u)
              ELSE IF status # "going" THEN NULL
              ELSE row1.waitlist_position
    IN Flush(c0.m, c0.o, u, [row1 EXCEPT !.waitlist_position = wl])

respond_to_invitation_result(g, m, o, u, status, pick) ==
    LET c == respond_to_invitation_commit(g, m, o, u, status)
    IN IF status = "not_going" /\ Truthy(g) THEN Promote(c.m, c.o, pick) ELSE c

respond_to_invitation_picks(g, m, o, u, status) ==
    IF status = "not_going"
    THEN SweepChoices(g, respond_to_invitation_commit(g, m, o, u, status).m)
    ELSE {"none"}

\* update_rsvp_result without the branch of lines 272-275: a status other than
\* going leaves the waitlist_position of the row.
update_rsvp_result_keeps_position(g, m, o, u, status) ==
    LET rsvp == IF status = "not_going" THEN "no" ELSE status
        row1 == [m[u] EXCEPT !.rsvp_status = rsvp]
        m1 == [m EXCEPT ![u] = row1]
        wl == IF status = "going" /\ Truthy(g) THEN WaitlistOnGoing(g, m1, u)
              ELSE row1.waitlist_position
        c1 == Flush(m, o, u, [row1 EXCEPT !.waitlist_position = wl])
    IN IF status = "pending" THEN c1
       ELSE [m |-> [c1.m EXCEPT ![u].role = RoleForStatus(c1.m[u].role, status)],
             o |-> Touch(c1.o, u)]

\* ---------------------------- POST /api/rsvp/<trip_id>/update (lines 218-292)
\* Only called for a member (line 239 returns 404 otherwise).  The first
\* commit (line 278) writes status and position, the second (line 286) the
\* role: the row is expired by the first commit, so the assignment of line
\* 282 / 284 is always written (and updated_at with it).
update_rsvp_result(g, m, o, u, status) ==
    LET rsvp == IF status = "not_going" THEN "no" ELSE status
        row1 == [m[u] EXCEPT !.rsvp_status = rsvp]
        m1 == [m EXCEPT ![u] = row1]
        wl == IF status = "going" /\ Truthy(g) THEN WaitlistOnGoing(g, m1, u)
              ELSE IF status # "going" THEN NULL
              ELSE row1.waitlist_position
        c1 == Flush(m, o, u, [row1 EXCEPT !.waitlist_position = wl])
    IN IF status = "pending" THEN c1
       ELSE [m |-> [c1.m EXCEPT ![u].role = RoleForStatus(c1.m[u].role, status)],
             o |-> Touch(c1.o, u)]

\* ------------------------------------ POST /api/rsvp/respond (lines 80-165)
\* going_members ordered by updated_at (PostgreSQL: NULLs last): the index of
\* u in it.  k counts the NULL-updated going rows the database returns before
\* u when u's own updated_at is NULL.
InOrder(o, u) == \E i \in 1..Len(o) : o[i] = u
NullGoingOthers(m, o, u) == {v \in GoingMembers(m) \ {u} : ~InOrder(o, v)}
PositionOf(m, o, u, k) ==
    IF InOrder(o, u)
    THEN Cardinality({i \in 1..Len(o) :
            o[i] \in GoingMembers(m) /\ \E j \in (i+1)..Len(o) : o[j] = u})
    ELSE Cardinality({v \in GoingMembers(m) : InOrder(o, v)}) + k

respond_to_invite_commit(g, m, o, u, response, k) ==
    LET c1 == Flush(m, o, u, [m[u] EXCEPT !.rsvp_status = response])
        current_going == Cardinality(GoingMembers(c1.m))
        position == PositionOf(c1.m, c1.o, u, k)
        wl == IF response = "going" /\ Truthy(g)
              THEN IF current_going > g
                   THEN IF position >= g THEN position - g + 1 ELSE NULL
                   ELSE c1.m[u].waitlist_position
              ELSE IF response # "going" THEN NULL
              ELSE c1.m[u].waitlist_position
    IN Flush(c1.m, c1.o, u, [c1.m[u] EXCEPT !.waitlist_position = wl])

respond_to_invite_result(g, m, o, u, response, k, pick) ==
    LET c == respond_to_invite_commit(g, m, o, u, response, k)
    IN IF response = "no" /\ Truthy(g) THEN Promote(c.m, c.o, pick) ELSE c

respond_to_invite_picks(g, m, o, u, response, k) ==
    IF response = "no"
    THEN SweepChoices(g, respond_to_invite_commit(g, m, o, u, response, k).m)
    ELSE {"none"}

\* The orders the database may return for a u whose updated_at is NULL.
respond_to_invite_ks(m, o, u, response) ==
    IF response = "going" /\ m[u].rsvp_status = "going" /\ ~InOrder(o, u)
    THEN 0..Cardinality(NullGoingOthers(m, o, u))
    ELSE {0}

\* ----------------------------- POST /api/rsvp/join/<token> (lines 11-78)
join_trip_row(g, m) ==
    IF Truthy(g) /\ Cardinality(GoingMembers(m)) >= g
    THEN TripMember("guest", "pending", MaxPosition(m) + 1)
    ELSE TripMember("guest", "pending", NULL)

join_trip_code(g, m) ==
    IF Truthy(g) /\ Cardinality(GoingMembers(m)) >= g THEN HTTP_OK ELSE HTTP_CREATED

\* ------------------------------------------------- models/expense.py rows
Expense(trip_id, creator_id, amount) ==
    [exists |-> TRUE, trip_id |-> trip_id, creator_id |-> creator_id, amount |-> amount,
     title |-> CreatedTitle]

ExpenseParticipant(user_id, share_amount, paid) ==
    [user_id |-> user_id, share_amount |-> share_amount, paid |-> paid]

\* An entry of the participants list of a request: keys holds the keys the
\* JSON object has ('paid' defaults to False).  The entries with both keys,
\* one that lacks 'share' and one that lacks 'user_id'.
ParticipantEntries ==
    {[keys |-> {"user_id", "share"}, user_id |-> u, share |-> s, paid |-> FALSE] :
        u \in Users, s \in 1..MaxAmount}
    \cup {[keys |-> {"user_id"}, user_id |-> u, share |-> 0, paid |-> FALSE] :
              u \in Creators}
    \cup {[keys |-> {"share"}, user_id |-> "none", share |-> s, paid |-> FALSE] :
              s \in {1}}

RECURSIVE SetToSeq(_)
SetToSeq(S) ==
    IF S = {} THEN <<>>
    ELSE LET x == CHOOSE y \in S : TRUE IN <<x>> \o SetToSeq(S \ {x})

\* The participants lists of the requests: 1..MaxEntries entries.  The order
\* of the entries of a list decides the order of its rows and nothing else:
\* one list stands for its reorderings.
ParticipantLists ==
    LET entry == SetToSeq(ParticipantEntries)
        indexes(n) == {f \in [1..n -> 1..Len(entry)] :
                          \A i \in 1..(n - 1) : f[i] <= f[i + 1]}
    IN UNION {{[i \in 1..n |-> entry[f[i]]] : f \in indexes(n)} : n \in 1..MaxEntries}

RECURSIVE SumSeq(_)
SumSeq(s) == IF s = <<>> THEN 0 ELSE Head(s) + SumSeq(Tail(s))

Abs(x) == IF x < 0 THEN -x ELSE x

\* The rows of the query results, in the order of the user ids (no operation
\* here depends on the order the database returns).
UserOrder == <<"u1", "u2", "u3">>

\* ------------------------------------- routes/expenses.py: the share checks
\* Lines 83 and 167: sum(p.get('share', 0) for p in participants)
total_share(entries) ==
    SumSeq([i \in 1..Len(entries) |->
              IF "share" \in entries[i].keys THEN entries[i].share ELSE 0])

\* shares_match with the comparison of line 85 written as total_share >
\* float(amount): a list that sums to less than the amount passes.
shares_match_upto(entries, amount) ==
    IF total_share(entries) > amount THEN {FALSE} ELSE {TRUE}

\* Lines 85 and 169: total_share != float(amount), a comparison of doubles.
\* The double sum of the shares is within binary rounding of their exact sum
\* (0.1 + 0.2 != 0.3), which is far less than a cent: sums that differ never
\* compare equal, and an exact sum of several non-zero shares may compare
\* either way.  The set of the outcomes of "total_share == float(amount)".
shares_match(entries, amount) ==
    IF total_share(entries) # amount THEN {FALSE}
    ELSE IF Cardinality({i \in 1..Len(entries) :
                "share" \in entries[i].keys /\ entries[i].share # 0}) <= 1
    THEN {TRUE}
    ELSE BOOLEAN

\* Lines 89 and 173: 'user_id' not in p or 'share' not in p, for some entry.
malformed(entries) ==
    \E i \in 1..Len(entries) : ~({"user_id", "share"} \subseteq entries[i].keys)

\* Lines 92-98 and 176-182: the rows of the entries.
participant_rows(entries) ==
    [i \in 1..Len(entries) |->
        ExpenseParticipant(entries[i].user_id, entries[i].share, entries[i].paid)]

\* The amounts in cents (up to 16) whose double lies under the amount: 0.03 is
\* the double 0.0299999999999999988897769753748.
DoubleUnder == {3, 6, 9, 12, 15}

\* Line 71 and models/expense.py:54: Decimal(amount) / total_members stored in
\* a Numeric(10, 2) column, which keeps the cent nearest to the quotient and,
\* half way between two cents, the larger.  The Decimal is built from the
\* amount of the request: a quotient of half a cent falls under the half when
\* the amount is a JSON number whose double lies under it.
even_shares(amount, n) ==
    LET q == amount \div n
        r == amount % n
    IN IF 2 * r < n THEN {q}
       ELSE IF 2 * r > n THEN {q + 1}
       ELSE IF amount \in DoubleUnder THEN {q, q + 1}
       ELSE {q + 1}

\* Lines 64-80: one row for each going member, paid on the row of the caller.
even_split_rows(m, u, share) ==
    LET going == SelectSeq(UserOrder, LAMBDA v : m[v].rsvp_status = "going")
    IN [i \in 1..Len(going) |-> ExpenseParticipant(going[i], share, going[i] = u)]

\* uuid.uuid4(): an id no expense has (the ids are interchangeable).
FreshIds ==
    LET free == {e \in DOMAIN expenses : ~expenses[e].exists}
    IN IF free = {} THEN {} ELSE {CHOOSE e \in free : TRUE}

\* ---------------------- routes/expenses.py get_expense_summary (208-285)
TripExpenses(t) ==
    {e \in DOMAIN expenses : expenses[e].exists /\ expenses[e].trip_id = t}

RECURSIVE SumOver(_, _)
SumOver(S, f) ==
    IF S = {} THEN 0
    ELSE LET x == CHOOSE y \in S : TRUE IN f[x] + SumOver(S \ {x}, f)

\* Lines 236-237: the amounts of the expenses v created.
PaidBy(t, v) ==
    SumOver(TripExpenses(t),
            [e \in DOMAIN expenses |->
                IF expenses[e].creator_id = v THEN expenses[e].amount ELSE 0])

\* Lines 240-242: the shares of the participant rows of v.
OwedBy(t, v) ==
    SumOver(TripExpenses(t),
            [e \in DOMAIN expenses |->
                SumSeq([i \in 1..Len(expense_participants[e]) |->
                          IF expense_participants[e][i].user_id = v
                          THEN expense_participants[e][i].share_amount ELSE 0])])

\* Lines 236-246: float(expense.amount) and float(participant.share_amount)
\* are added up as doubles.  A double of this model is written as
\* cents * Quantum + excess, the excess counting the units in the last place
\* by which it differs from the double of the cents (far less than a cent).
Quantum == 8

\* The sums of doubles that leave an excess, <<cents, excess, term, excess of
\* the sum>>, for the sums of up to three of 0.01, 0.05 and 0.06 (0.01 + 0.05 is
\* 0.060000000000000005) and of up to four of 0.01 and 0.02 (all exact).
DoubleSumExcess ==
    {<<1, 0, 5, 1>>, <<5, 0, 1, 1>>, <<1, 0, 6, -1>>, <<6, 0, 1, -1>>,
     <<6, 1, 5, 1>>, <<7, -1, 1, -1>>, <<10, 0, 5, 1>>, <<11, 0, 6, -1>>,
     <<12, 0, 5, -1>>}

\* Line 270: round(amount, 2), the cent nearest to a double.
Cents(d) == (d + Quantum \div 2) \div Quantum

\* Lines 237 and 242: balance += float(x), for x in cents.
DoubleAdd(acc, x) ==
    LET c == Cents(acc)
        hit == {r \in DoubleSumExcess :
                   r[1] = c /\ r[2] = acc - c * Quantum /\ r[3] = x}
    IN IF x = 0 THEN acc
       ELSE (c + x) * Quantum + (IF hit = {} THEN 0 ELSE (CHOOSE r \in hit : TRUE)[4])

RECURSIVE DoubleSum(_, _)
DoubleSum(acc, terms) ==
    IF terms = <<>> THEN acc
    ELSE DoubleSum(DoubleAdd(acc, Head(terms)), Tail(terms))

\* Line 213: Expense.query.filter_by(trip_id=trip_id).all(), the expenses of
\* the trip in the order the database returns them (no ORDER BY: any order).
ExpenseOrders(t) ==
    {s \in [1..Cardinality(TripExpenses(t)) -> TripExpenses(t)] :
        \A i, j \in 1..Cardinality(TripExpenses(t)) : i # j => s[i] # s[j]}

\* Lines 233-242: the loop over the expenses, for the paid and the owed of v.
RECURSIVE DoublePaid(_, _, _)
DoublePaid(order, v, acc) ==
    IF order = <<>> THEN acc
    ELSE DoublePaid(Tail(order), v,
                    IF expenses[Head(order)].creator_id = v
                    THEN DoubleAdd(acc, expenses[Head(order)].amount) ELSE acc)

RECURSIVE DoubleOwed(_, _, _)
DoubleOwed(order, v, acc) ==
    IF order = <<>> THEN acc
    ELSE LET rows == expense_participants[Head(order)]
             mine == SelectSeq(rows, LAMBDA r : r.user_id = v)
         IN DoubleOwed(Tail(order), v,
                       DoubleSum(acc, [i \in 1..Len(mine) |-> mine[i].share_amount]))

\* Lines 224-246: the balances of the members of the trip, as doubles.
Balances(t, order) ==
    LET members == {v \in Users : IsMember(trip_members[t], v)}
    IN [users |-> members,
        paid |-> [v \in Users |-> IF v \in members THEN DoublePaid(order, v, 0) ELSE 0],
        owed |-> [v \in Users |-> IF v \in members THEN DoubleOwed(order, v, 0) ELSE 0]]

\* Lines 250-255: the sorted lists (the sort is stable and the members come
\* in no defined order: equal nets come in any order).
Orders(S, net, descending) ==
    {s \in [1..Cardinality(S) -> S] :
        /\ \A i, j \in 1..Cardinality(S) : i # j => s[i] # s[j]
        /\ \A i \in 1..(Cardinality(S) - 1) :
              IF descending THEN net[s[i]] >= net[s[i + 1]]
              ELSE net[s[i]] <= net[s[i + 1]]}

Min(a, b) == IF a <= b THEN a ELSE b

\* PayCreditors without the deductions of lines 273 and 274: the net of the
\* creditor and the remaining debt stay as they were, and the loop goes on.
RECURSIVE PayCreditors_nothing_deducted(_, _, _, _, _)
PayCreditors_nothing_deducted(debtor, debt_remaining, creditors, i, st) ==
    IF i > Len(creditors) THEN st
    ELSE IF st.net[creditors[i]] <= 0
    THEN PayCreditors_nothing_deducted(debtor, debt_remaining, creditors, i + 1, st)
    ELSE LET amount == IF debt_remaining <= st.net[creditors[i]]
                       THEN debt_remaining ELSE st.net[creditors[i]]
             paid == [net |-> st.net,
                      settlements |-> Append(st.settlements,
                          [from_user_id |-> debtor, to_user_id |-> creditors[i],
                           amount |-> Cents(amount)])]
         IN PayCreditors_nothing_deducted(debtor, debt_remaining, creditors, i + 1,
                                          IF amount > 0 THEN paid ELSE st)

\* Lines 261-277: the inner loop, from creditor i on; st holds the nets (the
\* loop lowers the net of a creditor in place) and the settlements so far.
RECURSIVE PayCreditors(_, _, _, _, _)
PayCreditors(debtor, debt_remaining, creditors, i, st) ==
    IF i > Len(creditors) THEN st
    ELSE IF st.net[creditors[i]] <= 0
    THEN PayCreditors(debtor, debt_remaining, creditors, i + 1, st)
    ELSE LET amount == Min(debt_remaining, st.net[creditors[i]])
             paid == [net |-> [st.net EXCEPT ![creditors[i]] = @ - amount],
                      settlements |-> Append(st.settlements,
                          [from_user_id |-> debtor, to_user_id |-> creditors[i],
                           amount |-> Cents(amount)])]
         IN IF amount > 0
            THEN IF debt_remaining - amount <= 0 THEN paid
                 ELSE PayCreditors(debtor, debt_remaining - amount, creditors, i + 1, paid)
            ELSE PayCreditors(debtor, debt_remaining, creditors, i + 1, st)

RECURSIVE Settle(_, _, _, _)
\* Settle with line 259 written as debt_remaining = debtor['net']: the debt
\* keeps the sign of the net.
Settle_debt_not_negated(debtors, j, creditors, st) ==
    IF j > Len(debtors) THEN st
    ELSE Settle(debtors, j + 1, creditors,
                PayCreditors(debtors[j], st.net[debtors[j]], creditors, 1, st))

\* Lines 258-277: the outer loop, from debtor j on.
Settle(debtors, j, creditors, st) ==
    IF j > Len(debtors) THEN st
    ELSE Settle(debtors, j + 1, creditors,
                PayCreditors(debtors[j], -st.net[debtors[j]], creditors, 1, st))

\* The response body for the balances b and the sorted lists the run got.  The
\* loops run on the doubles; the record keeps the paid, owed and net of the
\* body to the nearest cent.
Summary(b, creditors, debtors) ==
    LET net == [v \in DOMAIN b.paid |-> b.paid[v] - b.owed[v]]
        st == Settle(debtors, 1, creditors, [net |-> net, settlements |-> <<>>])
    IN [exists |-> TRUE, users |-> b.users,
        paid |-> [v \in DOMAIN b.paid |-> Cents(b.paid[v])],
        owed |-> [v \in DOMAIN b.paid |-> Cents(b.owed[v])],
        net |-> [v \in DOMAIN b.paid |-> Cents(st.net[v])],
        settlements |-> st.settlements]

\* ================================================================ actions
Init ==
    /\ trips = [t \in Trips |-> NoTrip]
    /\ trip_members = [t \in Trips |-> [u \in Users |-> NoMember]]
    /\ updated = [t \in Trips |-> <<>>]
    /\ last = NoLast
    /\ req = [u \in Users |-> NoRequest]
    /\ raced = {}
    /\ expenses = [e \in ExpenseIds |-> NoExpense]
    /\ expense_participants = [e \in ExpenseIds |-> <<>>]
    /\ summary = NoSummary
    /\ looked = {}
    /\ extra_rows = [t \in Trips |-> [u \in Users |-> <<>>]]

\* The response of a request.
Reply(op, u, arg, code) ==
    /\ last' = [op |-> op, user |-> u, arg |-> arg, code |-> code]
    /\ UNCHANGED <<req, raced, join_vars>>

\* The response of a request that leaves the expense tables alone.
Done(op, u, arg, code) ==
    /\ Reply(op, u, arg, code)
    /\ summary' = NoSummary
    /\ UNCHANGED <<expenses, expense_participants>>

\* The positions a request may assign stay within the model's bound.
Bounded(m) == \A v \in Users : m[v].waitlist_position <= MaxPos

Store(t, c) ==
    /\ Bounded(c.m)
    /\ trip_members' = [trip_members EXCEPT ![t] = c.m]
    /\ updated' = [updated EXCEPT ![t] = c.o]

\* create_trip with the trip committed before the membership is added: a
\* failure of the second commit leaves the trip without its planner.
create_trip_trip_first(t, u, gl) ==
    /\ ~trips[t].exists
    /\ trips' = [trips EXCEPT ![t] = [exists |-> TRUE, guest_limit |-> gl, creator_id |-> u]]
    /\ \/ /\ Store(t, Insert(trip_members[t], updated[t], u,
                              TripMember("planner", "going", NULL)))
          /\ Done("create_trip", u, "none", HTTP_CREATED)
       \/ /\ UNCHANGED <<trip_members, updated>>
          /\ Done("create_trip", u, "none", HTTP_INTERNAL)

\* routes/trips.py create_trip (lines 36-106): the trip and its creator's
\* planner / going membership, one commit (line 98); when the commit raises,
\* the session is rolled back and the response is 500 (lines 102-106).
create_trip(t, u, gl) ==
    /\ ~trips[t].exists
    /\ \/ /\ trips' = [trips EXCEPT ![t] =
                          [exists |-> TRUE, guest_limit |-> gl, creator_id |-> u]]
          /\ Store(t, Insert(trip_members[t], updated[t], u,
                              TripMember("planner", "going", NULL)))
          /\ Done("create_trip", u, "none", HTTP_CREATED)
       \/ /\ UNCHANGED <<trips, trip_members, updated>>
          /\ Done("create_trip", u, "none", HTTP_INTERNAL)

\* routes/trips.py get_trip_invite_info (lines 253-285)
get_trip_invite_info(t, u) ==
    /\ trips[t].exists
    /\ Store(t, IF IsMember(trip_members[t], u)
                THEN [m |-> trip_members[t], o |-> updated[t]]
                ELSE Insert(trip_members[t], updated[t], u,
                            TripMember("viewer", "pending", NULL)))
    /\ Done("get_trip_invite_info", u, "none", HTTP_OK)
    /\ UNCHANGED trips

\* routes/rsvp.py join_trip (lines 11-78)
join_trip(t, u) ==
    /\ IF ~trips[t].exists
       THEN /\ Done("join_trip", u, "none", HTTP_NOT_FOUND)
            /\ UNCHANGED <<trip_members, updated>>
       ELSE IF IsMember(trip_members[t], u)
       THEN /\ Done("join_trip", u, "none", HTTP_BAD_REQUEST)
            /\ UNCHANGED <<trip_members, updated>>
       ELSE /\ Store(t, Insert(trip_members[t], updated[t], u,
                               join_trip_row(trips[t].guest_limit, trip_members[t])))
            /\ Done("join_trip", u, "none",
                    join_trip_code(trips[t].guest_limit, trip_members[t]))
    /\ UNCHANGED trips

\* routes/rsvp.py respond_to_invite (lines 80-165); a trip that does not
\* exist has no membership row (trip_id is a foreign key): 404 at line 102.
respond_to_invite(t, u, response) ==
    /\ IF ~IsMember(trip_members[t], u)
       THEN /\ Done("respond_to_invite", u, response, HTTP_NOT_FOUND)
            /\ UNCHANGED <<trip_members, updated>>
       ELSE \E k \in respond_to_invite_ks(trip_members[t], updated[t], u, response) :
            \E pick \in respond_to_invite_picks(trips[t].guest_limit, trip_members[t],
                                                updated[t], u, response, k) :
               /\ Store(t, respond_to_invite_result(trips[t].guest_limit, trip_members[t],
                                                    updated[t], u, response, k, pick))
               /\ Done("respond_to_invite", u, response, HTTP_OK)
    /\ UNCHANGED trips

\* routes/rsvp.py update_rsvp (lines 218-292); 404 at line 240 for a trip
\* that does not exist, as it has no membership row.
update_rsvp(t, u, status) ==
    /\ IF ~IsMember(trip_members[t], u)
       THEN /\ Done("update_rsvp", u, status, HTTP_NOT_FOUND)
            /\ UNCHANGED <<trip_members, updated>>
       ELSE /\ Store(t, update_rsvp_result(trips[t].guest_limit, trip_members[t],
                                           updated[t], u, status))
            /\ Done("update_rsvp", u, status, HTTP_OK)
    /\ UNCHANGED trips

\* routes/rsvp.py respond_to_invitation (lines 294-392).  For a trip that does
\* not exist the handler finds no membership and inserts one (lines 314-323)
\* before it looks the trip up (line 325): the commit of line 323 violates the
\* foreign key trip_members.trip_id (models/trip.py:52, PostgreSQL), the
\* exception is not handled and the response is 500.
respond_to_invitation(t, u, status) ==
    /\ IF ~trips[t].exists
       THEN /\ Done("respond_to_invitation", u, status, HTTP_INTERNAL)
            /\ UNCHANGED <<trip_members, updated>>
       ELSE /\ \E pick \in respond_to_invitation_picks(trips[t].guest_limit,
                                trip_members[t], updated[t], u, status) :
                  Store(t, respond_to_invitation_result(trips[t].guest_limit,
                                trip_members[t], updated[t], u, status, pick))
            /\ Done("respond_to_invitation", u, status, HTTP_OK)
    /\ UNCHANGED trips

\* IsPlanner with the decorator written without its role argument,
\* @is_trip_member(): every member passes.
IsPlanner_any_member(m, u) == IsMember(m, u)

\* middleware/auth.py is_trip_member(role='planner') (lines 166-207)
IsPlanner(m, u) == IsMember(m, u) /\ m[u].role = "planner"

\* routes/trips.py update_trip (lines 125-197), the guest_limit field
update_trip(t, u, gl) ==
    /\ trips[t].exists
    /\ IF ~IsPlanner(trip_members[t], u)
       THEN /\ Done("update_trip", u, "none", HTTP_FORBIDDEN)
            /\ UNCHANGED trips
       ELSE /\ trips' = [trips EXCEPT ![t].guest_limit = gl]
            /\ Done("update_trip", u, "none", HTTP_OK)
    /\ UNCHANGED <<trip_members, updated>>

\* routes/trips.py delete_trip (lines 199-230); members and expenses cascade
\* (models/trip.py:20 and 24, models/expense.py:24)
delete_trip(t, u) ==
    /\ trips[t].exists
    /\ IF ~IsPlanner(trip_members[t], u)
       THEN /\ Done("delete_trip", u, "none", HTTP_FORBIDDEN)
            /\ UNCHANGED <<trips, trip_members, updated>>
       ELSE /\ trips' = [trips EXCEPT ![t] = NoTrip]
            /\ trip_members' = [trip_members EXCEPT ![t] = [v \in Users |-> NoMember]]
            /\ updated' = [updated EXCEPT ![t] = <<>>]
            /\ expenses' = [e \in DOMAIN expenses |->
                              IF expenses[e].trip_id = t THEN NoExpense ELSE expenses[e]]
            /\ expense_participants' =
                  [e \in DOMAIN expenses |->
                      IF expenses[e].trip_id = t THEN <<>> ELSE expense_participants[e]]
            /\ summary' = NoSummary
            /\ extra_rows' = [extra_rows EXCEPT ![t] = [v \in Users |-> <<>>]]
            /\ last' = [op |-> "delete_trip", user |-> u, arg |-> "none", code |-> HTTP_OK]
            /\ UNCHANGED <<req, raced, looked>>

\* routes/trips.py update_trip_member (lines 296-320): the row after the
\* fields present in the request ("absent" otherwise) are assigned.
update_trip_member_row(row, role, rsvp) ==
    [row EXCEPT !.role = IF role = "absent" THEN @ ELSE role,
                !.rsvp_status = IF rsvp = "absent" THEN @ ELSE rsvp]

update_trip_member(t, u, target, role, rsvp) ==
    /\ trips[t].exists
    /\ IF ~IsPlanner(trip_members[t], u)
       THEN /\ Done("update_trip_member", u, target, HTTP_FORBIDDEN)
            /\ UNCHANGED <<trip_members, updated>>
       ELSE IF ~IsMember(trip_members[t], target)
       THEN /\ Done("update_trip_member", u, target, HTTP_NOT_FOUND)
            /\ UNCHANGED <<trip_members, updated>>
       ELSE /\ Store(t, Flush(trip_members[t], updated[t], target,
                              update_trip_member_row(trip_members[t][target], role, rsvp)))
            /\ Done("update_trip_member", u, target, HTTP_OK)
    /\ UNCHANGED trips

\* routes/trips.py remove_trip_member (lines 322-335)
remove_trip_member(t, u, target) ==
    /\ trips[t].exists
    /\ IF ~IsPlanner(trip_members[t], u)
       THEN /\ Done("remove_trip_member", u, target, HTTP_FORBIDDEN)
            /\ UNCHANGED <<trip_members, updated>>
       ELSE IF ~IsMember(trip_members[t], target)
       THEN /\ Done("remove_trip_member", u, target, HTTP_NOT_FOUND)
            /\ UNCHANGED <<trip_members, updated>>
       ELSE /\ Store(t, Delete(trip_members[t], updated[t], target))
            /\ Done("remove_trip_member", u, target, HTTP_OK)
    /\ UNCHANGED trips

\* MayChange with the role test written as role != 'viewer': a guest may
\* change the expenses of the others.
MayChange_not_viewer(t, u, e) ==
    expenses[e].creator_id = u \/ trip_members[t][u].role # "viewer"

\* The caller may change the expense: its creator or a planner (lines
\* 126-129, 198-201, 327-328).
MayChange(t, u, e) ==
    expenses[e].creator_id = u \/ trip_members[t][u].role = "planner"

\* Expense.query.filter_by(id=expense_id, trip_id=trip_id).first()
ExpenseOf(t, e) == expenses[e].exists /\ expenses[e].trip_id = t

\* A request that changes no row of the expense tables.
Refuse(op, u, arg, code) ==
    /\ Reply(op, u, arg, code)
    /\ UNCHANGED <<expenses, expense_participants>>

\* Persist without the bulk delete of line 163: the rows of the request are
\* added to the rows the expense has.
Persist_without_delete(e, expense, rows) ==
    /\ expenses' = [expenses EXCEPT ![e] = expense]
    /\ expense_participants' = [expense_participants EXCEPT ![e] = @ \o rows]

\* The commit of an expense and its participant rows.
Persist(e, expense, rows) ==
    /\ expenses' = [expenses EXCEPT ![e] = expense]
    /\ expense_participants' = [expense_participants EXCEPT ![e] = rows]

\* routes/expenses.py create_expense (lines 22-102).  The rows are added to
\* the session and written by the commit of line 100: a request that returns
\* before it leaves nothing.  arg is the error of a 400 response, or the id of
\* the expense.
create_expense(t, u, amount, entries) ==
    /\ trips[t].exists
    /\ IF ~IsMember(trip_members[t], u)
       THEN Refuse("create_expense", u, "none", HTTP_FORBIDDEN)
       ELSE IF entries = <<>>
       THEN LET n == Cardinality(GoingMembers(trip_members[t]))
            IN \E e \in FreshIds :
               \E share \in (IF n > 0 THEN even_shares(amount, n) ELSE {0}) :
                  /\ Persist(e, Expense(t, u, amount),
                             IF n > 0 THEN even_split_rows(trip_members[t], u, share)
                             ELSE <<>>)
                  /\ Reply("create_expense", u, e, HTTP_CREATED)
       ELSE \E ok \in shares_match(entries, amount) :
               IF ~ok
               THEN Refuse("create_expense", u, "shares", HTTP_BAD_REQUEST)
               ELSE IF malformed(entries)
               THEN Refuse("create_expense", u, "entry", HTTP_BAD_REQUEST)
               ELSE \E e \in FreshIds :
                       /\ Persist(e, Expense(t, u, amount), participant_rows(entries))
                       /\ Reply("create_expense", u, e, HTTP_CREATED)
    /\ summary' = NoSummary
    /\ UNCHANGED <<trips, trip_members, updated>>

\* routes/expenses.py update_expense (lines 116-186): fields holds the keys of
\* the request among 'title', 'amount' and 'participants'.  The title assigned
\* at line 134 and the rows deleted at line 163 are as before when the request
\* returns before the commit of line 184.
update_expense(t, u, e, fields, amount, entries) ==
    /\ trips[t].exists
    /\ IF ~IsMember(trip_members[t], u)
       THEN Refuse("update_expense", u, e, HTTP_FORBIDDEN)
       ELSE IF ~ExpenseOf(t, e)
       THEN Refuse("update_expense", u, e, HTTP_NOT_FOUND)
       ELSE IF ~MayChange(t, u, e)
       THEN Refuse("update_expense", u, e, HTTP_FORBIDDEN)
       ELSE IF "amount" \in fields /\ "participants" \notin fields
       THEN Refuse("update_expense", u, "participants", HTTP_BAD_REQUEST)
       ELSE LET new_amount == IF "amount" \in fields THEN amount ELSE expenses[e].amount
                new_title == IF "title" \in fields THEN UpdatedTitle
                             ELSE expenses[e].title
            IN IF "participants" \notin fields
               THEN /\ Persist(e, [expenses[e] EXCEPT !.title = new_title],
                               expense_participants[e])
                    /\ Reply("update_expense", u, e, HTTP_OK)
               ELSE \E ok \in shares_match(entries, new_amount) :
                  IF ~ok
                  THEN Refuse("update_expense", u, "shares", HTTP_BAD_REQUEST)
                  ELSE IF malformed(entries)
                  THEN Refuse("update_expense", u, "entry", HTTP_BAD_REQUEST)
                  ELSE /\ Persist(e, [expenses[e] EXCEPT !.amount = new_amount,
                                                         !.title = new_title],
                                  participant_rows(entries))
                       /\ Reply("update_expense", u, e, HTTP_OK)
    /\ summary' = NoSummary
    /\ UNCHANGED <<trips, trip_members, updated>>

\* delete_expense without the cascade of models/expense.py:24: the participant
\* rows stay.
delete_expense_without_cascade(t, u, e) ==
    /\ trips[t].exists
    /\ IF ~IsMember(trip_members[t], u)
       THEN Refuse("delete_expense", u, e, HTTP_FORBIDDEN)
       ELSE IF ~ExpenseOf(t, e)
       THEN Refuse("delete_expense", u, e, HTTP_NOT_FOUND)
       ELSE IF ~MayChange(t, u, e)
       THEN Refuse("delete_expense", u, e, HTTP_FORBIDDEN)
       ELSE /\ Persist(e, NoExpense, expense_participants[e])
            /\ Reply("delete_expense", u, e, HTTP_OK)
    /\ summary' = NoSummary
    /\ UNCHANGED <<trips, trip_members, updated>>

\* routes/expenses.py delete_expense (lines 188-206); the participant rows
\* cascade (models/expense.py:24).
delete_expense(t, u, e) ==
    /\ trips[t].exists
    /\ IF ~IsMember(trip_members[t], u)
       THEN Refuse("delete_expense", u, e, HTTP_FORBIDDEN)
       ELSE IF ~ExpenseOf(t, e)
       THEN Refuse("delete_expense", u, e, HTTP_NOT_FOUND)
       ELSE IF ~MayChange(t, u, e)
       THEN Refuse("delete_expense", u, e, HTTP_FORBIDDEN)
       ELSE /\ Persist(e, NoExpense, <<>>)
            /\ Reply("delete_expense", u, e, HTTP_OK)
    /\ summary' = NoSummary
    /\ UNCHANGED <<trips, trip_members, updated>>

\* ExpenseParticipant.query.filter_by(expense_id=..., user_id=...).first():
\* the rows that can come first (the query has no order, and nothing keeps a
\* user to one row of an expense).
ParticipantRows(e, target) ==
    {i \in 1..Len(expense_participants[e]) :
        expense_participants[e][i].user_id = target}

\* routes/expenses.py mark_participant_paid (lines 315-344); arg is the
\* expense and the user of the path.
mark_participant_paid(t, u, e, target) ==
    /\ trips[t].exists
    /\ IF ~IsMember(trip_members[t], u)
       THEN Refuse("mark_participant_paid", u, <<e, target>>, HTTP_FORBIDDEN)
       ELSE IF ~ExpenseOf(t, e)
       THEN Refuse("mark_participant_paid", u, <<e, target>>, HTTP_NOT_FOUND)
       ELSE IF ~MayChange(t, u, e)
       THEN Refuse("mark_participant_paid", u, <<e, target>>, HTTP_FORBIDDEN)
       ELSE IF ParticipantRows(e, target) = {}
       THEN Refuse("mark_participant_paid", u, <<e, target>>, HTTP_NOT_FOUND)
       ELSE \E i \in ParticipantRows(e, target) :
               /\ Persist(e, expenses[e],
                          [expense_participants[e] EXCEPT ![i].paid = TRUE])
               /\ Reply("mark_participant_paid", u, <<e, target>>, HTTP_OK)
    /\ summary' = NoSummary
    /\ UNCHANGED <<trips, trip_members, updated>>

\* routes/expenses.py get_expense_summary (lines 208-285)
get_expense_summary(t, u) ==
    /\ trips[t].exists
    /\ IF ~IsMember(trip_members[t], u)
       THEN /\ Refuse("get_expense_summary", u, "none", HTTP_FORBIDDEN)
            /\ summary' = NoSummary
       ELSE \E order \in ExpenseOrders(t) :
               LET b == Balances(t, order)
                   net == [v \in Users |-> b.paid[v] - b.owed[v]]
               IN \E creditors \in Orders({v \in b.users : net[v] > 0}, net, TRUE) :
                  \E debtors \in Orders({v \in b.users : net[v] < 0}, net, FALSE) :
                     /\ summary' = Summary(b, creditors, debtors)
                     /\ Refuse("get_expense_summary", u, "none", HTTP_OK)
    /\ UNCHANGED <<trips, trip_members, updated>>

PlannerOver(US) ==
    \/ \E t \in Trips, u \in US, gl \in GuestLimits : update_trip(t, u, gl)
    \/ \E t \in Trips, u \in US : delete_trip(t, u)
    \/ \E t \in Trips, u \in US, target \in US,
          role \in Roles \cup {"absent"},
          rsvp \in {"going", "maybe", "not_going", "pending", "absent"} :
          update_trip_member(t, u, target, role, rsvp)
    \/ \E t \in Trips, u \in US, target \in US : remove_trip_member(t, u, target)

RsvpOver(US) ==
    \/ \E t \in Trips, u \in Creators, gl \in GuestLimits : create_trip(t, u, gl)
    \/ \E t \in Trips, u \in US : get_trip_invite_info(t, u)
    \/ \E t \in Trips, u \in US : join_trip(t, u)
    \/ \E t \in Trips, u \in US, r \in {"going", "maybe", "no"} :
          respond_to_invite(t, u, r)
    \/ \E t \in Trips, u \in US, s \in {"going", "maybe", "not_going", "pending"} :
          update_rsvp(t, u, s)
    \/ \E t \in Trips, u \in US, s \in {"going", "maybe", "not_going"} :
          respond_to_invitation(t, u, s)

RsvpNext == RsvpOver(Users)

Spec == Init /\ [][RsvpNext]_vars

\* The planner operations make every role / status combination reachable: they
\* are explored with the creator and one other user.
TripsUsers == {"u1", "u2"}

TripsNext == RsvpOver(TripsUsers) \/ PlannerOver(TripsUsers)

SpecTrips == Init /\ [][TripsNext]_vars

\* The expense engine, on a trip without a guest limit: the invited users
\* accept and the creator may decline.
ExpenseNext ==
    \/ \E t \in Trips, u \in Creators : create_trip(t, u, NULL_LIMIT)
    \/ \E t \in Trips, u \in Users \ Creators : respond_to_invitation(t, u, "going")
    \/ \E t \in Trips, u \in Creators : update_rsvp(t, u, "not_going")
    \/ \E t \in Trips, u \in Users, amount \in Amounts,
          entries \in {<<>>} \cup ParticipantLists : create_expense(t, u, amount, entries)
    \/ \E t \in Trips, u \in Users, e \in ExpenseIds : update_expense(t, u, e, {}, 0, <<>>)
    \/ \E t \in Trips, u \in Users, e \in ExpenseIds, amount \in Amounts :
          update_expense(t, u, e, {"amount"}, amount, <<>>)
    \/ \E t \in Trips, u \in Users, e \in ExpenseIds,
          entries \in {<<>>} \cup ParticipantLists :
          update_expense(t, u, e, {"participants"}, 0, entries)
    \/ \E t \in Trips, u \in Users, e \in ExpenseIds, amount \in Amounts,
          entries \in {<<>>} \cup ParticipantLists :
          update_expense(t, u, e, {"amount", "participants"}, amount, entries)
    \/ \E t \in Trips, u \in Users, e \in ExpenseIds : delete_expense(t, u, e)
    \/ \E t \in Trips, u \in Users : get_expense_summary(t, u)

SpecExpense == Init /\ [][ExpenseNext]_vars

\* create_expense alone, over the trip and its invited users.
CreateNext ==
    \/ \E t \in Trips, u \in Creators : create_trip(t, u, NULL_LIMIT)
    \/ \E t \in Trips, u \in Users \ Creators : respond_to_invitation(t, u, "going")
    \/ \E t \in Trips, u \in Users, amount \in Amounts,
          entries \in {<<>>} \cup ParticipantLists : create_expense(t, u, amount, entries)
    \/ \E t \in Trips, u \in Users, e \in ExpenseIds : delete_expense(t, u, e)

SpecCreate == Init /\ [][CreateNext]_vars

\* The operations on a stored expense, over the trip and its invited users.
PaidNext ==
    \/ \E t \in Trips, u \in Creators : create_trip(t, u, NULL_LIMIT)
    \/ \E t \in Trips, u \in Users \ Creators : respond_to_invitation(t, u, "going")
    \/ \E t \in Trips, u \in Users, amount \in Amounts,
          entries \in {<<>>} \cup ParticipantLists : create_expense(t, u, amount, entries)
    \/ \E t \in Trips, u \in Users, e \in ExpenseIds, amount \in Amounts,
          entries \in ParticipantLists :
          update_expense(t, u, e, {"amount", "participants"}, amount, entries)
    \/ \E t \in Trips, u \in Users, e \in ExpenseIds : delete_expense(t, u, e)
    \/ \E t \in Trips, u \in Users, e \in ExpenseIds, target \in Users :
          mark_participant_paid(t, u, e, target)

SpecPaid == Init /\ [][PaidNext]_vars

\* update_expense with every combination of its keys, on the expenses that
\* the creator of the trip and its invited users create.
\* The user who answers the invitation in the runs of update_expense; the third
\* user stays outside the trip.
Invitees == {"u2"}

UpdateNext ==
    \/ \E t \in Trips, u \in Creators : create_trip(t, u, NULL_LIMIT)
    \/ \E t \in Trips, u \in Invitees : respond_to_invitation(t, u, "going")
    \/ \E t \in Trips, u \in Users, amount \in Amounts,
          entries \in {<<>>} \cup ParticipantLists : create_expense(t, u, amount, entries)
    \/ \E t \in Trips, u \in Users, e \in ExpenseIds, fields \in SUBSET {"title"} :
          update_expense(t, u, e, fields, 0, <<>>)
    \/ \E t \in Trips, u \in Users, e \in ExpenseIds, fields \in SUBSET {"title"},
          amount \in Amounts :
          update_expense(t, u, e, fields \cup {"amount"}, amount, <<>>)
    \/ \E t \in Trips, u \in Users, e \in ExpenseIds, fields \in SUBSET {"title"},
          entries \in {<<>>} \cup ParticipantLists :
          update_expense(t, u, e, fields \cup {"participants"}, 0, entries)
    \/ \E t \in Trips, u \in Users, e \in ExpenseIds, fields \in SUBSET {"title"},
          amount \in Amounts, entries \in {<<>>} \cup ParticipantLists :
          update_expense(t, u, e, fields \cup {"amount", "participants"}, amount, entries)

SpecUpdate == Init /\ [][UpdateNext]_vars

\* A ledger of two expenses: the expenses table with room for two ids.
LedgerIds == {"e1", "e2"}

InitLedger ==
    /\ trips = [t \in Trips |-> NoTrip]
    /\ trip_members = [t \in Trips |-> [u \in Users |-> NoMember]]
    /\ updated = [t \in Trips |-> <<>>]
    /\ last = NoLast
    /\ req = [u \in Users |-> NoRequest]
    /\ raced = {}
    /\ expenses = [e \in LedgerIds |-> NoExpense]
    /\ expense_participants = [e \in LedgerIds |-> <<>>]
    /\ summary = NoSummary
    /\ looked = {}
    /\ extra_rows = [t \in Trips |-> [u \in Users |-> <<>>]]

\* Expenses created, deleted and summed up, over the trip and one invited user.
LedgerNext ==
    \/ \E t \in Trips, u \in Creators : create_trip(t, u, NULL_LIMIT)
    \/ \E t \in Trips, u \in Invitees : respond_to_invitation(t, u, "going")
    \/ \E t \in Trips, u \in Users, amount \in Amounts,
          entries \in {<<>>} \cup ParticipantLists : create_expense(t, u, amount, entries)
    \/ \E t \in Trips, u \in Users, e \in LedgerIds : delete_expense(t, u, e)
    \/ \E t \in Trips, u \in Users : get_expense_summary(t, u)

SpecLedger == InitLedger /\ [][LedgerNext]_vars

\* A ledger of three expenses of 0.01, 0.05 and 0.06, each with the one
\* participant who owes the whole of it, over the trip and one invited user.
FloatIds == {"e1", "e2", "e3"}

FloatAmounts == {1, 5, 6}

FloatLists ==
    {<<[keys |-> {"user_id", "share"}, user_id |-> v, share |-> s, paid |-> FALSE]>> :
        v \in Creators \cup Invitees, s \in FloatAmounts}

InitFloat ==
    /\ trips = [t \in Trips |-> NoTrip]
    /\ trip_members = [t \in Trips |-> [u \in Users |-> NoMember]]
    /\ updated = [t \in Trips |-> <<>>]
    /\ last = NoLast
    /\ req = [u \in Users |-> NoRequest]
    /\ raced = {}
    /\ expenses = [e \in FloatIds |-> NoExpense]
    /\ expense_participants = [e \in FloatIds |-> <<>>]
    /\ summary = NoSummary
    /\ looked = {}
    /\ extra_rows = [t \in Trips |-> [u \in Users |-> <<>>]]

FloatNext ==
    \/ \E t \in Trips, u \in Creators : create_trip(t, u, NULL_LIMIT)
    \/ \E t \in Trips, u \in Invitees : respond_to_invitation(t, u, "going")
    \/ \E t \in Trips, u \in Creators \cup Invitees, amount \in FloatAmounts,
          entries \in FloatLists : create_expense(t, u, amount, entries)
    \/ \E t \in Trips, u \in Creators : get_expense_summary(t, u)

SpecFloat == InitFloat /\ [][FloatNext]_vars

\* The derivation of the settlements (lines 248-285) on its own, for the
\* balances of four members: summary starts as the user_balances of line 246,
\* in cents, before a response exists.
Parties == {"p1", "p2", "p3", "p4"}

InitSettle ==
    /\ trips = [t \in Trips |-> NoTrip]
    /\ trip_members = [t \in Trips |-> [u \in Users |-> NoMember]]
    /\ updated = [t \in Trips |-> <<>>]
    /\ last = NoLast
    /\ req = [u \in Users |-> NoRequest]
    /\ raced = {}
    /\ expenses = [e \in ExpenseIds |-> NoExpense]
    /\ expense_participants = [e \in ExpenseIds |-> <<>>]
    /\ \E paid \in [Parties -> Amounts], owed \in [Parties -> Amounts] :
          summary = [exists |-> FALSE, users |-> Parties, paid |-> paid, owed |-> owed,
                     net |-> [v \in Parties |-> paid[v] - owed[v]],
                     settlements |-> <<>>]
    /\ looked = {}
    /\ extra_rows = [t \in Trips |-> [u \in Users |-> <<>>]]

\* Lines 248-285 for the balances held in summary.
derive_settlements ==
    /\ ~summary.exists
    /\ LET b == [users |-> summary.users,
                 paid |-> [v \in Parties |-> summary.paid[v] * Quantum],
                 owed |-> [v \in Parties |-> summary.owed[v] * Quantum]]
           net == [v \in Parties |-> b.paid[v] - b.owed[v]]
       IN \E creditors \in Orders({v \in b.users : net[v] > 0}, net, TRUE) :
          \E debtors \in Orders({v \in b.users : net[v] < 0}, net, FALSE) :
             summary' = Summary(b, creditors, debtors)
    /\ UNCHANGED <<trips, trip_members, updated, last, req, raced,
                   expenses, expense_participants, looked, extra_rows>>

SettleNext == derive_settlements

SpecSettle == InitSettle /\ [][SettleNext]_vars

\* ===================================================== interleaved requests
\* respond_to_invitation ("ri") and update_rsvp ("ur") statement by statement.
\* Each request runs in its own session (READ COMMITTED): its queries read the
\* committed rows, its own row is written at its commits, column by column for
\* the columns it assigned a new value.

\* SessionRow with the test of lines 350 / 261 written as going_count >
\* guest_limit, the count taken without the member itself.
SessionRow_count_only(g, r) ==
    LET rsvp == IF r.status = "not_going" THEN "no" ELSE r.status
        role == IF r.route = "ri" THEN RoleForStatus(r.loaded.role, r.status)
                ELSE r.loaded.role
        wl == IF r.status = "going" /\ Truthy(g)
              THEN IF r.count > g THEN r.maxpos + 1 ELSE NULL
              ELSE IF r.status # "going" THEN NULL
              ELSE r.loaded.waitlist_position
    IN TripMember(role, rsvp, wl)

\* The row a session holds for its member after the assignments of lines
\* 333-362 (ri) or 248-275 (ur), from the row it loaded and what it read.
SessionRow(g, r) ==
    LET rsvp == IF r.status = "not_going" THEN "no" ELSE r.status
        role == IF r.route = "ri" THEN RoleForStatus(r.loaded.role, r.status)
                ELSE r.loaded.role
        wl == IF r.status = "going" /\ Truthy(g)
              THEN IF r.count + 1 > g THEN r.maxpos + 1 ELSE NULL
              ELSE IF r.status # "going" THEN NULL
              ELSE r.loaded.waitlist_position
    IN TripMember(role, rsvp, wl)

\* The UPDATE a flush emits: the columns whose value the session changed.
ColumnWrite(row, loaded, new) ==
    [role |-> IF new.role # loaded.role THEN new.role ELSE row.role,
     rsvp_status |-> IF new.rsvp_status # loaded.rsvp_status
                     THEN new.rsvp_status ELSE row.rsvp_status,
     waitlist_position |-> IF new.waitlist_position # loaded.waitlist_position
                           THEN new.waitlist_position ELSE row.waitlist_position]

\* The autoflush before the count query wrote (and locked) the row of v.
Locked(g, v) ==
    /\ req[v].pc \in {"counted", "maxed"}
    /\ \/ SessionRow(g, req[v]).rsvp_status # req[v].loaded.rsvp_status
       \/ SessionRow(g, req[v]).role # req[v].loaded.role

\* The response is sent: the request is over.
Finish(u) == req' = [req EXCEPT ![u] = NoRequest] /\ UNCHANGED <<last, exp_vars, join_vars>>

\* A commit of the row of u.  updated_at is read by respond_to_invite alone,
\* which takes no part in these interleavings: its order is not kept here.
Commit(t, u, row) ==
    /\ row.waitlist_position <= MaxPos
    /\ trip_members' = [trip_members EXCEPT ![t][u] = row]
    /\ UNCHANGED updated

InFlight == {v \in Users : req[v].pc # "idle"}

\* The overlaps a commit of u's request makes with the requests that have
\* read the table and not yet committed on what they read.
Overlaps(u, going) ==
    LET readers == {v \in Users \ {u} : req[v].pc \in {"counted", "maxed"}}
        sweepers == {v \in Users \ {u} : req[v].pc \in {"sweeping", "promoting"}}
    IN (IF going /\ readers # {} THEN {"going"} ELSE {})
       \cup (IF sweepers # {} \/ (~going /\ readers # {}) THEN {"sweep"} ELSE {})

\* Lines 308-325 (ri) and 234-251 (ur): the member row is looked up; ri
\* inserts and commits a viewer / pending row when there is none.
begin_request(t, u, route, status) ==
    /\ trips[t].exists
    /\ req[u].pc = "idle"
    /\ Cardinality(InFlight) < MaxInFlight
    /\ route = "ur" => IsMember(trip_members[t], u)
    /\ LET row == IF IsMember(trip_members[t], u) THEN trip_members[t][u]
                  ELSE TripMember("viewer", "pending", NULL)
       IN /\ Commit(t, u, row)
          /\ req' = [req EXCEPT ![u] = [NoRequest EXCEPT !.pc = "begun", !.route = route,
                                           !.status = status, !.loaded = row]]
    /\ UNCHANGED <<trips, last, raced, exp_vars, join_vars>>

\* Lines 344-347 / 255-258: the count of the other going members.
count_going(t, u) ==
    /\ req[u].pc = "begun"
    /\ req[u].status = "going" /\ Truthy(trips[t].guest_limit)
    /\ req' = [req EXCEPT ![u].pc = "counted",
                          ![u].count = OtherGoing(trip_members[t], u)]
    /\ UNCHANGED <<trips, trip_members, updated, last, raced, exp_vars, join_vars>>

\* Lines 352-354 / 263-265: the largest position of the trip.
max_position(t, u) ==
    /\ req[u].pc = "counted"
    /\ req[u].count + 1 > trips[t].guest_limit
    /\ req' = [req EXCEPT ![u].pc = "maxed",
                          ![u].maxpos = MaxPosition(trip_members[t])]
    /\ UNCHANGED <<trips, trip_members, updated, last, raced, exp_vars, join_vars>>

\* Lines 364-365 / 277-278: the commit of status and position.
commit_rsvp(t, u) ==
    LET g == trips[t].guest_limit
        r == req[u]
        going == r.status = "going" /\ Truthy(g)
        new == ColumnWrite(trip_members[t][u], r.loaded, SessionRow(g, r))
    IN /\ \/ r.pc = "begun" /\ ~going
          \/ r.pc = "counted" /\ r.count + 1 <= g
          \/ r.pc = "maxed"
       /\ Commit(t, u, new)
       /\ raced' = raced \cup Overlaps(u, going)
       /\ IF r.route = "ur" /\ r.status # "pending"
          THEN req' = [req EXCEPT ![u].pc = "role"] /\ UNCHANGED <<last, exp_vars, join_vars>>
          ELSE IF r.route = "ri" /\ r.status = "not_going" /\ Truthy(g)
          THEN req' = [req EXCEPT ![u].pc = "committed"] /\ UNCHANGED <<last, exp_vars, join_vars>>
          ELSE Finish(u)
       /\ UNCHANGED trips

\* Lines 280-286 (ur): the role, in a second commit.
commit_role(t, u) ==
    /\ req[u].pc = "role"
    /\ Commit(t, u, [trip_members[t][u] EXCEPT
                        !.role = RoleForStatus(trip_members[t][u].role, req[u].status)])
    /\ Finish(u)
    /\ UNCHANGED <<trips, raced>>

\* Lines 369-375 (ri): the count of the confirmed members after the commit.
sweep_count(t, u) ==
    /\ req[u].pc = "committed"
    /\ IF Cardinality(ConfirmedGoing(trip_members[t])) < trips[t].guest_limit
       THEN req' = [req EXCEPT ![u].pc = "sweeping"] /\ UNCHANGED <<last, exp_vars, join_vars>>
       ELSE Finish(u)
    /\ UNCHANGED <<trips, trip_members, updated, raced>>

\* Lines 377-382 (ri): the first waitlisted member.
sweep_find(t, u) ==
    /\ req[u].pc = "sweeping"
    /\ IF Waitlisted(trip_members[t]) = {}
       THEN Finish(u)
       ELSE /\ \E pick \in FirstWaitlisted(trip_members[t]) :
                 req' = [req EXCEPT ![u].pc = "promoting", ![u].target = pick]
            /\ UNCHANGED <<last, exp_vars, join_vars>>
    /\ UNCHANGED <<trips, trip_members, updated, raced>>

\* Lines 384-386 (ri): the promotion, in a commit of its own; the UPDATE
\* waits for a session that holds the row.
sweep_promote(t, u) ==
    /\ req[u].pc = "promoting"
    /\ ~Locked(trips[t].guest_limit, req[u].target)
    /\ Commit(t, req[u].target,
              [trip_members[t][req[u].target] EXCEPT !.waitlist_position = NULL])
    /\ Finish(u)
    /\ raced' = raced \cup Overlaps(u, FALSE)
    /\ UNCHANGED trips

ConcNext ==
    \/ \E t \in Trips, u \in Creators, gl \in 1..MaxLimit : create_trip(t, u, gl)
    \/ \E t \in Trips, u \in Users, route \in {"ri", "ur"},
          s \in {"going", "not_going"} : begin_request(t, u, route, s)
    \/ \E t \in Trips, u \in Users : count_going(t, u)
    \/ \E t \in Trips, u \in Users : max_position(t, u)
    \/ \E t \in Trips, u \in Users : commit_rsvp(t, u)
    \/ \E t \in Trips, u \in Users : commit_role(t, u)
    \/ \E t \in Trips, u \in Users : sweep_count(t, u)
    \/ \E t \in Trips, u \in Users : sweep_find(t, u)
    \/ \E t \in Trips, u \in Users : sweep_promote(t, u)

SpecConc == Init /\ [][ConcNext]_vars

\* A second trip beside the first: the RSVP handlers answer requests for the
\* first trip while an invited user accepts the second.
OtherTrips == {"t2"}

InitBeside ==
    /\ trips = [t \in Trips \cup OtherTrips |-> NoTrip]
    /\ trip_members = [t \in Trips \cup OtherTrips |-> [u \in Users |-> NoMember]]
    /\ updated = [t \in Trips \cup OtherTrips |-> <<>>]
    /\ last = NoLast
    /\ req = [u \in Users |-> NoRequest]
    /\ raced = {}
    /\ expenses = [e \in ExpenseIds |-> NoExpense]
    /\ expense_participants = [e \in ExpenseIds |-> <<>>]
    /\ summary = NoSummary
    /\ looked = {}
    /\ extra_rows = [t \in Trips \cup OtherTrips |-> [u \in Users |-> <<>>]]

BesideNext ==
    \/ \E t \in Trips \cup OtherTrips, u \in Creators : create_trip(t, u, 1)
    \/ \E t \in OtherTrips, u \in Invitees : respond_to_invitation(t, u, "going")
    \/ \E t \in Trips, u \in Users, r \in {"going", "maybe", "no"} :
          respond_to_invite(t, u, r)
    \/ \E t \in Trips, u \in Users, s \in {"going", "maybe", "not_going", "pending"} :
          update_rsvp(t, u, s)
    \/ \E t \in Trips, u \in Users, s \in {"going", "maybe", "not_going"} :
          respond_to_invitation(t, u, s)

SpecBeside == InitBeside /\ [][BesideNext]_vars

\* ============================================= interleaved membership creation
\* get_trip_invite_info ("invite_info"), join_trip ("join") and
\* respond_to_invitation with status maybe ("ri"): each looks for the
\* membership of the user and, finding none, inserts one and commits.  A
\* request is two steps: the lookup, and the rest of the handler.
JoinRoutes == {"invite_info", "join", "ri"}

\* The waitlist positions of the rows beyond the first.
ExtraPositions(t) ==
    UNION {{extra_rows[t][v][i].waitlist_position : i \in 1..Len(extra_rows[t][v])} :
              v \in Users}
    \ {NULL}

\* routes/rsvp.py lines 333-362 for status maybe: no query is made.
maybe_row(row) ==
    [row EXCEPT !.rsvp_status = "maybe", !.role = RoleForStatus(row.role, "maybe"),
                !.waitlist_position = NULL]

\* The row a request inserts: trips.py:276-281, rsvp.py:35-71 (the count and
\* the largest position are over every row of the trip; no row beyond a
\* user's first is going here), rsvp.py:316-321 then the status of line 333.
inserted_row(t, route) ==
    LET row == join_trip_row(trips[t].guest_limit, trip_members[t])
    IN IF route = "invite_info" THEN TripMember("viewer", "pending", NULL)
       ELSE IF route = "ri" THEN maybe_row(TripMember("viewer", "pending", NULL))
       ELSE IF row.waitlist_position = NULL THEN row
       ELSE [row EXCEPT !.waitlist_position =
                SetMax({MaxPosition(trip_members[t])} \cup ExtraPositions(t)) + 1]

inserted_code(t, route) ==
    IF route = "join"
    THEN join_trip_code(trips[t].guest_limit, trip_members[t])
    ELSE HTTP_OK

\* The response of a membership-creating request.
JoinReply(route, u, code) ==
    /\ last' = [op |-> route, user |-> u, arg |-> "none", code |-> code]
    /\ UNCHANGED <<trips, req, raced, exp_vars>>

\* trips.py:263-266, rsvp.py:26-29 and 308-311: the lookup, and the rest of
\* the handler when a row is found (.first() of the rows of the pair, in no
\* defined order: ri sets maybe on the row it was given).
lookup_member(t, u, route) ==
    /\ trips[t].exists
    /\ <<route, t, u>> \notin looked
    /\ IF ~IsMember(trip_members[t], u)
       THEN /\ looked' = looked \cup {<<route, t, u>>}
            /\ UNCHANGED <<trips, trip_members, updated, last, req, raced,
                           exp_vars, extra_rows>>
       ELSE /\ UNCHANGED looked
            /\ IF route = "invite_info"
               THEN /\ JoinReply(route, u, HTTP_OK)
                    /\ UNCHANGED <<trip_members, updated, extra_rows>>
               ELSE IF route = "join"
               THEN /\ JoinReply(route, u, HTTP_BAD_REQUEST)
                    /\ UNCHANGED <<trip_members, updated, extra_rows>>
               ELSE /\ JoinReply(route, u, HTTP_OK)
                    /\ \E i \in 0..Len(extra_rows[t][u]) :
                          IF i = 0
                          THEN /\ Store(t, Flush(trip_members[t], updated[t], u,
                                                 maybe_row(trip_members[t][u])))
                               /\ UNCHANGED extra_rows
                          ELSE /\ extra_rows' = [extra_rows EXCEPT ![t][u][i] =
                                                    maybe_row(extra_rows[t][u][i])]
                               /\ UNCHANGED <<trip_members, updated>>

\* trips.py:276-283, rsvp.py:35-71 and 314-365: the insert and its commit, by
\* a request that found no row; the row is the first of the pair or one more.
insert_member(t, u, route) ==
    /\ <<route, t, u>> \in looked
    /\ looked' = looked \ {<<route, t, u>>}
    /\ inserted_row(t, route).waitlist_position <= MaxPos
    /\ IF ~IsMember(trip_members[t], u)
       THEN /\ LET c == Insert(trip_members[t], updated[t], u,
                               TripMember("viewer", "pending", NULL))
               IN Store(t, IF route = "ri"
                           THEN Flush(c.m, c.o, u, inserted_row(t, route))
                           ELSE Insert(trip_members[t], updated[t], u,
                                       inserted_row(t, route)))
            /\ UNCHANGED extra_rows
       ELSE /\ extra_rows' = [extra_rows EXCEPT ![t][u] =
                                 Append(@, inserted_row(t, route))]
            /\ UNCHANGED <<trip_members, updated>>
    /\ JoinReply(route, u, inserted_code(t, route))

JoinNext ==
    \/ \E t \in Trips, u \in Creators, gl \in GuestLimits : create_trip(t, u, gl)
    \/ \E t \in Trips, u \in Users, route \in JoinRoutes : lookup_member(t, u, route)
    \/ \E t \in Trips, u \in Users, route \in JoinRoutes : insert_member(t, u, route)

SpecJoin == Init /\ [][JoinNext]_vars

\* ================================================================= claims
RsvpOps == {"respond_to_invite", "update_rsvp", "respond_to_invitation"}

\* The last request was a successful RSVP update of u with status in S.
RsvpBy(u, S) ==
    /\ last'.op \in RsvpOps
    /\ last'.user = u
    /\ last'.arg \in S
    /\ last'.code = HTTP_OK

\* C1: on every trip with a guest limit the number of members that are going
\* and not waitlisted is at most the limit, after every completed operation
\* (stated for limits >= 1, where the truthiness test of the limit is not at
\* issue).
C1_CapacityInvariant ==
    \A t \in Trips :
        (trips[t].exists /\ trips[t].guest_limit >= 1)
            => Cardinality(ConfirmedGoing(trip_members[t])) <= trips[t].guest_limit

\* C4: a planner is still a planner after an RSVP update of its own, on every
\* RSVP route.
C4_PlannerKept ==
    [][\A t \in Trips, u \in Users :
          (trip_members[t][u].role = "planner"
              /\ RsvpBy(u, {"going", "maybe", "no", "not_going"}))
            => trip_members'[t][u].role = "planner"]_vars

\* C5: a member who sets going on a trip with a guest limit while the other
\* going members plus one exceed the limit ends going with waitlist_position
\* = (the largest position of the trip, 0 if none) + 1.
C5_WaitlistAssignment ==
    [][\A t \in Trips, u \in Users :
          (/\ RsvpBy(u, {"going"})
           /\ trips[t].guest_limit >= 1
           /\ OtherGoing(trip_members[t], u) + 1 > trips[t].guest_limit)
            => /\ trip_members'[t][u].rsvp_status = "going"
               /\ trip_members'[t][u].waitlist_position
                    = MaxPosition(trip_members[t]) + 1]_vars

\* C6: when a confirmed going member of a trip with a guest limit sets maybe
\* or no while somebody is waitlisted, the waitlisted member with the
\* smallest position is confirmed by that same request.
C6_PromotionOnVacating ==
    [][\A t \in Trips, u \in Users :
          (/\ RsvpBy(u, {"maybe", "no", "not_going"})
           /\ trips[t].guest_limit >= 1
           /\ u \in ConfirmedGoing(trip_members[t])
           /\ Waitlisted(trip_members[t]) # {})
            => \E v \in FirstWaitlisted(trip_members[t]) :
                  trip_members'[t][v].waitlist_position = NULL]_vars

\* Two memberships of the trip hold the same waitlist position.
DuplicatePositions(m) ==
    \E v, w \in Users :
        v # w /\ m[v].waitlist_position # NULL
              /\ m[v].waitlist_position = m[w].waitlist_position

\* More members are going and not waitlisted than the guest limit allows.
OverCapacity(g, m) == g # NULL_LIMIT /\ Cardinality(ConfirmedGoing(m)) > g

\* C7: two going requests of different members that each read the going count
\* and the largest position before the other commits leave duplicate
\* positions or more confirmed members than the limit; without such an
\* overlap these two routes leave neither.
C7_RaceOnly ==
    \A t \in Trips :
        (DuplicatePositions(trip_members[t])
            \/ OverCapacity(trips[t].guest_limit, trip_members[t])) => raced # {}

C7_Witness ==
    \E t \in Trips :
        /\ raced = {"going"} /\ InFlight = {}
        /\ DuplicatePositions(trip_members[t])

C7_WitnessOverCapacity ==
    \E t \in Trips :
        /\ raced = {"going"} /\ InFlight = {}
        /\ OverCapacity(trips[t].guest_limit, trip_members[t])

\* Lines 368-375: the promotion the sweep would make is still to be made.
PromotionDue(g, m) ==
    Truthy(g) /\ Cardinality(ConfirmedGoing(m)) < g /\ Waitlisted(m) # {}

\* C8: an RSVP request is one unit of work: no committed state has the
\* vacating member's new status without the promotion it triggers, nor the
\* implicitly created membership without the requested status.
C8_OneUnitOfWork ==
    \A t \in Trips, u \in Users :
        /\ req[u].pc \in {"committed", "sweeping", "promoting"}
              => ~PromotionDue(trips[t].guest_limit, trip_members[t])
        /\ (req[u].pc # "idle" /\ req[u].status # "pending")
              => trip_members[t][u].rsvp_status # "pending"

\* The sum of the shares of the participant rows of expense e.
ShareSum(e) ==
    SumSeq([i \in 1..Len(expense_participants[e]) |->
              expense_participants[e][i].share_amount])

\* C2: in every persisted state the shares of the participant rows of an
\* expense sum to the amount of the expense, exactly.
C2_ShareSum ==
    \A e \in ExpenseIds : expenses[e].exists => ShareSum(e) = expenses[e].amount

\* The settlement amounts of the summary that v pays and receives.
SettledFrom(v) ==
    SumSeq([i \in 1..Len(summary.settlements) |->
              IF summary.settlements[i].from_user_id = v
              THEN summary.settlements[i].amount ELSE 0])

SettledTo(v) ==
    SumSeq([i \in 1..Len(summary.settlements) |->
              IF summary.settlements[i].to_user_id = v
              THEN summary.settlements[i].amount ELSE 0])

\* C3: for every user of a summary, the settlements from the user minus the
\* settlements to the user equal the user's net = paid - owed, up to a cent
\* (the net taken with either sign: what a debtor pays or what it is owed).
C3_SettlementZeroSum ==
    summary.exists =>
        \A v \in summary.users :
            LET net == summary.paid[v] - summary.owed[v]
                flow == SettledFrom(v) - SettledTo(v)
            IN Abs(flow - net) <= 1 \/ Abs(flow + net) <= 1

\* The list has shares that do not sum to the amount, or an entry that lacks
\* user_id or share.
Invalid(entries, amount) ==
    entries # <<>> /\ (total_share(entries) # amount \/ malformed(entries))

\* C9: create_expense of a member with a participants list whose shares do not
\* sum to the amount, or with an entry lacking user_id or share, answers 400
\* and leaves the expense and participant rows as they were: a create_expense
\* step that answers otherwise, or changes a row, is the step of no such
\* request.
C9_InvalidRejected ==
    [][(/\ last'.op = "create_expense"
        /\ ~(/\ last'.code = HTTP_BAD_REQUEST
             /\ UNCHANGED <<expenses, expense_participants>>))
          => \A t \in Trips, amount \in Amounts, entries \in ParticipantLists :
                ~(/\ IsMember(trip_members[t], last'.user)
                  /\ Invalid(entries, amount)
                  /\ create_expense(t, last'.user, amount, entries))]_vars

\* A request was refused for its entry (its shares sum to the amount) while an
\* expense is stored.
C9_Witness ==
    /\ last.op = "create_expense" /\ last.code = HTTP_BAD_REQUEST /\ last.arg = "entry"
    /\ \E e \in ExpenseIds : expenses[e].exists

\* C10: create_expense without participants makes exactly one row for each
\* going member of the trip, each with share_amount = amount / (number of
\* going members), paid on the row of the payer and on no other.
C10_EvenSplit ==
    [][\A t \in Trips, u \in Users, amount \in Amounts :
          (create_expense(t, u, amount, <<>>) /\ last'.code = HTTP_CREATED)
            => LET rows == expense_participants'[last'.arg]
                   going == GoingMembers(trip_members[t])
               IN /\ Len(rows) = Cardinality(going)
                  /\ \A v \in going : \E i \in 1..Len(rows) : rows[i].user_id = v
                  /\ \A i \in 1..Len(rows) :
                        /\ rows[i].share_amount * Cardinality(going) = amount
                        /\ rows[i].paid = (rows[i].user_id = u)]_vars

\* C11: the balance of every member in a summary is paid = the amounts of the
\* expenses the member created, owed = the shares of the member's participant
\* rows, and net = paid - owed, for creditors as for the others.
C11_ReportedNet ==
    summary.exists =>
        \A t \in Trips, v \in summary.users :
            trips[t].exists =>
                /\ summary.paid[v] = PaidBy(t, v)
                /\ summary.owed[v] = OwedBy(t, v)
                /\ summary.net[v] = summary.paid[v] - summary.owed[v]

\* C12: the summary of a trip with two members whose nets are +d and -d,
\* d > 0, has exactly one settlement: from the debtor to the creditor, of d.
C12_TwoMemberSettlement ==
    summary.exists =>
        \A c, d \in Users :
            (/\ c # d /\ summary.users = {c, d}
             /\ summary.paid[c] - summary.owed[c] > 0
             /\ summary.paid[d] - summary.owed[d] = summary.owed[c] - summary.paid[c])
              => summary.settlements =
                    <<[from_user_id |-> d, to_user_id |-> c,
                       amount |-> summary.paid[c] - summary.owed[c]]>>

\* A summary of two members: the one paid 2 cents more than it owes and the
\* other owes 2 cents more than it paid.
C12_Witness ==
    /\ summary.exists
    /\ \E c, d \in Users :
          /\ c # d /\ summary.users = {c, d}
          /\ summary.paid[c] - summary.owed[c] = 2
          /\ summary.paid[d] - summary.owed[d] = -2
          /\ Len(summary.settlements) = 1

\* C13: a mark_participant_paid that succeeds leaves the expense, the number
\* of its participant rows and the rows of the other users as they were, and
\* a row of the user with paid = true; when the request before it was the
\* same successful call, on the same expense and user, it changes nothing.
C13_MarkPaidIdempotent ==
    [][(last'.op = "mark_participant_paid" /\ last'.code = HTTP_OK)
          => LET e == last'.arg[1]
                 target == last'.arg[2]
                 rows == expense_participants[e]
             IN /\ expenses' = expenses
                /\ \A x \in ExpenseIds \ {e} :
                      expense_participants'[x] = expense_participants[x]
                /\ Len(expense_participants'[e]) = Len(rows)
                /\ \A i \in 1..Len(rows) :
                      \/ expense_participants'[e][i] = rows[i]
                      \/ /\ rows[i].user_id = target
                         /\ expense_participants'[e][i] = [rows[i] EXCEPT !.paid = TRUE]
                /\ \E i \in 1..Len(rows) :
                      /\ expense_participants'[e][i].user_id = target
                      /\ expense_participants'[e][i].paid
                /\ (/\ last.op = "mark_participant_paid" /\ last.code = HTTP_OK
                    /\ last.arg = last'.arg)
                      => expense_participants' = expense_participants]_vars

\* C14: a create_trip that succeeds leaves the trip with exactly one
\* membership, the creator's, with role planner, rsvp_status going and no
\* waitlist position; a create_trip that fails leaves neither trip nor
\* membership.
C14_CreatorMembership ==
    [][last'.op = "create_trip"
          => \E t \in Trips :
                /\ ~trips[t].exists
                /\ IF last'.code = HTTP_CREATED
                   THEN /\ trips'[t].exists
                        /\ trip_members'[t] =
                              [v \in Users |->
                                  IF v = last'.user
                                  THEN TripMember("planner", "going", NULL)
                                  ELSE NoMember]
                        /\ \A v \in Users : extra_rows'[t][v] = <<>>
                   ELSE UNCHANGED <<trips, trip_members, extra_rows>>]_vars

\* A trip was created, and its creator is its planner, going.
C14_Witness ==
    /\ last.op = "create_trip" /\ last.code = HTTP_CREATED
    /\ \E t \in Trips :
          /\ trips[t].exists
          /\ trip_members[t][last.user] = TripMember("planner", "going", NULL)

\* C15: a (trip, user) pair has at most one membership row, in every state,
\* whatever the interleaving of the requests that create memberships.
C15_OneMembership ==
    \A t \in Trips, u \in Users : extra_rows[t][u] = <<>>

\* C16: no two memberships of a trip hold the same non-null waitlist position
\* after any sequence of join-by-invite and RSVP requests run one after the
\* other.
C16_UniquePositions ==
    \A t \in Trips : ~DuplicatePositions(trip_members[t])

\* C17: a membership with a waitlist position has rsvp_status going.
C17_WaitlistedIsGoing ==
    \A t \in Trips, u \in Users :
        trip_members[t][u].waitlist_position # NULL
            => trip_members[t][u].rsvp_status = "going"

\* The member u asks to change an expense of the trip that u did not create,
\* and u is no planner.
NotAllowed(t, u, e) ==
    /\ trips[t].exists /\ IsMember(trip_members[t], u)
    /\ expenses[e].exists /\ expenses[e].trip_id = t
    /\ expenses[e].creator_id # u /\ trip_members[t][u].role # "planner"

\* The member u names an expense the trip does not have.
NoSuchExpense(t, u, e) ==
    trips[t].exists /\ IsMember(trip_members[t], u) /\ ~ExpenseOf(t, e)

\* The response has this code and no row of the expense tables changed.
RefusedWith(code) ==
    last'.code = code /\ UNCHANGED <<expenses, expense_participants>>

\* C18: update_expense, delete_expense and mark_participant_paid asked by a
\* member who is neither the creator of the expense nor a planner answer 403,
\* and asked for an expense the trip does not have (or, by a caller who may
\* change the expense, for a user with no participant row) answer 404; in
\* both cases the expense and every participant row stay as they were.
C18_Refusals ==
    [][/\ last'.op \in {"delete_expense", "mark_participant_paid"}
          => LET u == last'.user
                 e == IF last'.op = "delete_expense" THEN last'.arg ELSE last'.arg[1]
             IN \A t \in Trips :
                   /\ NotAllowed(t, u, e) => RefusedWith(HTTP_FORBIDDEN)
                   /\ NoSuchExpense(t, u, e) => RefusedWith(HTTP_NOT_FOUND)
                   /\ (/\ last'.op = "mark_participant_paid"
                       /\ trips[t].exists /\ IsMember(trip_members[t], u)
                       /\ ExpenseOf(t, e)
                       /\ (expenses[e].creator_id = u
                             \/ trip_members[t][u].role = "planner")
                       /\ ParticipantRows(e, last'.arg[2]) = {})
                         => RefusedWith(HTTP_NOT_FOUND)
       /\ (last'.op = "update_expense" /\ ~RefusedWith(HTTP_FORBIDDEN))
          => \A t \in Trips, e \in ExpenseIds :
                NotAllowed(t, last'.user, e)
                  => \A amount \in Amounts, entries \in ParticipantLists :
                        ~update_expense(t, last'.user, e, {"amount", "participants"},
                                        amount, entries)
       /\ (last'.op = "update_expense" /\ ~RefusedWith(HTTP_NOT_FOUND))
          => \A t \in Trips, e \in ExpenseIds :
                NoSuchExpense(t, last'.user, e)
                  => \A amount \in Amounts, entries \in ParticipantLists :
                        ~update_expense(t, last'.user, e, {"amount", "participants"},
                                        amount, entries)]_vars

\* A guest who did not create the stored expense was refused its update.
C18_Witness ==
    /\ last.op = "update_expense" /\ last.code = HTTP_FORBIDDEN
    /\ \E t \in Trips, e \in ExpenseIds :
          /\ trips[t].exists /\ ExpenseOf(t, e)
          /\ trip_members[t][last.user].role = "guest"
          /\ expenses[e].creator_id # last.user

PlannerOps == {"update_trip", "delete_trip", "update_trip_member", "remove_trip_member"}

\* C19: update_trip, delete_trip, update_trip_member and remove_trip_member
\* asked by a user who has no membership of the trip, or whose membership has
\* another role than planner, answer 403 and leave the trip and its
\* memberships as they were.
C19_PlannerOnly ==
    [][\A t \in Trips :
          (/\ last'.op \in PlannerOps
           /\ trips[t].exists
           /\ trip_members[t][last'.user].role # "planner")
            => /\ last'.code = HTTP_FORBIDDEN
               /\ UNCHANGED <<trips, trip_members, extra_rows>>]_vars

\* A guest of the trip was refused its deletion.
C19_Witness ==
    /\ last.op = "delete_trip" /\ last.code = HTTP_FORBIDDEN
    /\ \E t \in Trips :
          trips[t].exists /\ trip_members[t][last.user].role = "guest"

\* C20: every stored expense has an amount above zero.
C20_PositiveAmount ==
    \A e \in ExpenseIds : expenses[e].exists => expenses[e].amount > 0

\* C21: an RSVP request for a trip that does not exist answers 404 and leaves
\* the memberships as they were, on each of the RSVP routes.
C21_UnknownTrip ==
    [][\A t \in Trips :
          (last'.op \in RsvpOps /\ ~trips[t].exists)
            => /\ last'.code = HTTP_NOT_FOUND
               /\ UNCHANGED <<trip_members, extra_rows>>]_vars

\* The member u may change the expense e of the trip: its creator or a planner.
Allowed(t, u, e) ==
    /\ trips[t].exists /\ IsMember(trip_members[t], u)
    /\ expenses[e].exists /\ expenses[e].trip_id = t
    /\ (expenses[e].creator_id = u \/ trip_members[t][u].role = "planner")

StoredPaid(v) ==
    SumOver({e \in DOMAIN expenses : expenses[e].exists /\ expenses[e].creator_id = v},
            [e \in DOMAIN expenses |-> expenses[e].amount])
StoredOwed(v) ==
    SumOver({e \in DOMAIN expenses : expenses[e].exists},
            [e \in DOMAIN expenses |->
                SumSeq([i \in 1..Len(expense_participants[e]) |->
                          IF expense_participants[e][i].user_id = v
                          THEN expense_participants[e][i].share_amount ELSE 0])])

\* C23: a delete_expense that succeeds leaves no expense under the id and no
\* participant row of it, and leaves every other expense and its rows as they
\* were; the paid and owed figures of a summary are those of the stored
\* expenses, so that a deleted expense adds nothing to them.
C23_DeleteRemoves ==
    [][/\ (last'.op = "delete_expense" /\ last'.code = HTTP_OK)
          => /\ ~expenses'[last'.arg].exists
             /\ expense_participants'[last'.arg] = <<>>
             /\ \A x \in DOMAIN expenses \ {last'.arg} :
                   /\ expenses'[x] = expenses[x]
                   /\ expense_participants'[x] = expense_participants[x]
       /\ (last'.op = "get_expense_summary" /\ last'.code = HTTP_OK)
          => \A v \in summary'.users :
                /\ summary'.paid[v] = StoredPaid(v)
                /\ summary'.owed[v] = StoredOwed(v)]_vars

\* An expense with rows was deleted while another expense with rows stays.
C23_Witness ==
    /\ last.op = "delete_expense" /\ last.code = HTTP_OK
    /\ ~expenses[last.arg].exists
    /\ \E x \in DOMAIN expenses :
          expenses[x].exists /\ expenses[x].amount > 0 /\ expense_participants[x] # <<>>

\* C24: no expense has two participant rows of the same user.
C24_OneRowPerUser ==
    \A e \in DOMAIN expenses :
       \A i, j \in 1..Len(expense_participants[e]) :
          expense_participants[e][i].user_id = expense_participants[e][j].user_id => i = j

\* The members other than the requester whose waitlist_position the step
\* changes.
Moved(t) ==
    {v \in Users \ {last'.user} :
        trip_members'[t][v].waitlist_position # trip_members[t][v].waitlist_position}

\* C25: a request of the RSVP handlers changes the waitlist_position of at
\* most one member besides the requester; that member was going with a
\* position, the smallest non-null position any other member of the trip
\* held, and is going without a position afterwards; every other member
\* keeps its position.
C25_OneSlotFifo ==
    [][last'.op \in RsvpOps
          => \A t \in Trips :
                /\ Cardinality(Moved(t)) <= 1
                /\ \A v \in Moved(t) :
                      /\ trip_members[t][v].rsvp_status = "going"
                      /\ trip_members'[t][v].rsvp_status = "going"
                      /\ trip_members'[t][v].waitlist_position = NULL
                      /\ \A w \in Users \ {last'.user} :
                            trip_members[t][w].waitlist_position # NULL
                              => trip_members[t][v].waitlist_position
                                    <= trip_members[t][w].waitlist_position]_vars

\* C26: a request of the RSVP handlers that sets maybe or no, sent by a member
\* whose status was pending, maybe or no, changes the waitlist_position of no
\* other member.
C26_SweepOnlyFromGoing ==
    [][(/\ last'.op \in RsvpOps /\ last'.code = HTTP_OK
        /\ last'.arg \in {"maybe", "no", "not_going"})
          => \A t \in Trips :
                trip_members[t][last'.user].rsvp_status \in {"pending", "maybe", "no"}
                  => Moved(t) = {}]_vars

\* C27: on a trip with a guest limit where some member is going with a
\* waitlist_position, the members going without a position are at least
\* guest_limit.
C27_NoFreeSlotWhileWaiting ==
    \A t \in Trips :
       (/\ trips[t].exists /\ trips[t].guest_limit # NULL_LIMIT
        /\ Waitlisted(trip_members[t]) # {})
          => Cardinality(ConfirmedGoing(trip_members[t])) >= trips[t].guest_limit

\* C28: a member who is going without a waitlist_position and sends going
\* through an RSVP handler is going without a waitlist_position afterwards.
C28_ConfirmedStaysConfirmed ==
    [][(last'.op \in RsvpOps /\ last'.code = HTTP_OK /\ last'.arg = "going")
          => \A t \in Trips :
                (/\ trip_members[t][last'.user].rsvp_status = "going"
                 /\ trip_members[t][last'.user].waitlist_position = NULL)
                  => /\ trip_members'[t][last'.user].rsvp_status = "going"
                     /\ trip_members'[t][last'.user].waitlist_position = NULL]_vars

\* C29: every trip that exists has a member whose role is planner.
C29_SomePlanner ==
    \A t \in Trips :
       trips[t].exists => \E u \in Users : trip_members[t][u].role = "planner"

\* C30: a member who sends going through an RSVP handler on a trip with a
\* guest limit, while the other going members plus one are at most the
\* limit, is going without a waitlist_position afterwards.
C30_UnderCapacityConfirmed ==
    [][(last'.op \in RsvpOps /\ last'.code = HTTP_OK /\ last'.arg = "going")
          => \A t \in Trips :
                (/\ trips[t].exists /\ trips[t].guest_limit # NULL_LIMIT
                 /\ OtherGoing(trip_members[t], last'.user) + 1 <= trips[t].guest_limit)
                  => /\ trip_members'[t][last'.user].rsvp_status = "going"
                     /\ trip_members'[t][last'.user].waitlist_position = NULL]_vars

\* C31: a member who sends maybe, no or not_going through an RSVP handler has
\* no waitlist_position afterwards, on a trip with or without a guest limit.
C31_NotGoingClearsPosition ==
    [][(/\ last'.op \in RsvpOps /\ last'.code = HTTP_OK
        /\ last'.arg \in {"maybe", "no", "not_going"})
          => \A t \in Trips :
                trip_members'[t][last'.user].waitlist_position = NULL]_vars

\* A member has set maybe or no on a trip with a guest limit while another
\* member is on the waitlist.
C31_Witness ==
    /\ last.op \in RsvpOps /\ last.code = HTTP_OK
    /\ last.arg \in {"maybe", "no", "not_going"}
    /\ \E t \in Trips :
          /\ Truthy(trips[t].guest_limit)
          /\ trip_members[t][last.user].rsvp_status \in {"maybe", "no"}
          /\ Waitlisted(trip_members[t]) # {}

\* C32: a successful request of an RSVP handler stores the requested status
\* (not_going as no) on the requester's membership of one trip; on that trip
\* no other member's rsvp_status or role changes, and at most one other
\* member's waitlist_position changes, from a position to none; the
\* memberships of every other trip stay as they were.
C32_RsvpFrame ==
    [][(last'.op \in RsvpOps /\ last'.code = HTTP_OK)
          => \E t \in DOMAIN trips :
                /\ \A x \in DOMAIN trips \ {t} : trip_members'[x] = trip_members[x]
                /\ trip_members'[t][last'.user].rsvp_status
                      = (IF last'.arg = "not_going" THEN "no" ELSE last'.arg)
                /\ \A v \in Users \ {last'.user} :
                      /\ trip_members'[t][v].rsvp_status = trip_members[t][v].rsvp_status
                      /\ trip_members'[t][v].role = trip_members[t][v].role
                /\ Cardinality(Moved(t)) <= 1
                /\ \A v \in Moved(t) :
                      /\ trip_members[t][v].waitlist_position # NULL
                      /\ trip_members'[t][v].waitlist_position = NULL]_vars

\* A member declined on the first trip, where a guest is going without a
\* position and another member waits, while the second trip has a waitlist.
C32_Witness ==
    /\ last.op \in RsvpOps /\ last.code = HTTP_OK /\ last.arg \in {"no", "not_going"}
    /\ \E t \in Trips, v \in Users \ {last.user} :
          /\ trip_members[t][last.user].rsvp_status = "no"
          /\ trip_members[t][v] = TripMember("guest", "going", NULL)
          /\ Waitlisted(trip_members[t]) # {}
    /\ \E x \in OtherTrips : Waitlisted(trip_members[x]) # {}

\* The memberships of the users other than u are as they were.
OthersKept(t, u) ==
    \A v \in Users \ {u} : trip_members'[t][v] = trip_members[t][v]

\* C33: join_trip answers 404 for a trip that does not exist and rejects a
\* user who is a member, changing no membership; for a user without
\* membership, on a trip with a guest limit whose going members have reached
\* the limit, it creates the membership with waitlist_position = largest
\* position of the trip (0 if none) + 1, and otherwise a pending membership
\* without position.
C33_JoinByInvite ==
    [][last'.op = "join_trip"
          => \A t \in Trips :
                LET u == last'.user
                    m == trip_members[t]
                    g == trips[t].guest_limit
                    full == g # NULL_LIMIT /\ Cardinality(GoingMembers(m)) >= g
                IN /\ ~trips[t].exists
                      => last'.code = HTTP_NOT_FOUND /\ UNCHANGED trip_members
                   /\ (trips[t].exists /\ IsMember(m, u))
                      => last'.code = HTTP_BAD_REQUEST /\ UNCHANGED trip_members
                   /\ (trips[t].exists /\ ~IsMember(m, u) /\ full)
                      => /\ trip_members'[t][u].waitlist_position = MaxPosition(m) + 1
                         /\ OthersKept(t, u)
                   /\ (trips[t].exists /\ ~IsMember(m, u) /\ ~full)
                      => /\ trip_members'[t][u].rsvp_status = "pending"
                         /\ trip_members'[t][u].waitlist_position = NULL
                         /\ OthersKept(t, u)]_vars

\* C34: a member who sends going through an RSVP handler right after a
\* successful going of its own through the same handler, with no request in
\* between, has the rsvp_status, waitlist_position and role it had after the
\* first.
C34_GoingIdempotent ==
    [][(/\ last.op \in RsvpOps /\ last.code = HTTP_OK /\ last.arg = "going"
        /\ last'.op = last.op /\ last'.user = last.user
        /\ last'.code = HTTP_OK /\ last'.arg = "going")
          => \A t \in Trips : trip_members'[t][last.user] = trip_members[t][last.user]]_vars

\* C35: every settlement of a summary has an amount above zero, from a member
\* whose net (paid - owed) is negative to another member whose net is positive;
\* no member pays more than its debt and none receives more than its credit.
C35_SettlementsSound ==
    summary.exists =>
        LET net == [v \in Users |-> summary.paid[v] - summary.owed[v]]
        IN /\ \A i \in 1..Len(summary.settlements) :
                 LET s == summary.settlements[i]
                 IN /\ s.amount > 0
                    /\ s.from_user_id # s.to_user_id
                    /\ net[s.from_user_id] < 0
                    /\ net[s.to_user_id] > 0
           /\ \A v \in summary.users :
                 /\ SettledFrom(v) <= (IF net[v] < 0 THEN -net[v] ELSE 0)
                 /\ SettledTo(v) <= (IF net[v] > 0 THEN net[v] ELSE 0)

\* C36: in every summary the nets of the members add up to zero: what the
\* members paid is what the members owe.
C36_NetsSumToZero ==
    summary.exists =>
        SumOver(summary.users, [v \in Users |-> summary.paid[v] - summary.owed[v]]) = 0

\* C37: a user who has a paid row of an expense has one after every step that
\* keeps the expense and a row of the user (no request of the model carries a
\* 'paid' key: none asks for a flag to be reset).
C37_PaidStaysPaid ==
    [][\A e \in DOMAIN expenses, v \in Users :
          (/\ \E i \in 1..Len(expense_participants[e]) :
                 /\ expense_participants[e][i].user_id = v
                 /\ expense_participants[e][i].paid
           /\ expenses'[e].exists
           /\ \E j \in 1..Len(expense_participants'[e]) :
                 expense_participants'[e][j].user_id = v)
          => \E j \in 1..Len(expense_participants'[e]) :
                /\ expense_participants'[e][j].user_id = v
                /\ expense_participants'[e][j].paid]_vars

====
